---- MODULE Spec2Model ----
(***************************************************************************)
(* Model of ai_screenshot.py: the single-instance lock (PID file and meta  *)
(* file), the start / status / stop commands, the daemon's signal and      *)
(* timeout handlers, and the key dispatcher with its recording threads.    *)
(***************************************************************************)
EXTENDS Integers, Sequences, FiniteSets, TLC

\* ------------------------------------------------------------ bounds
\* Number of operating-system processes (command invocations and daemons).
MaxProcs == 4

\* Liveness polls of kill_existing_process: for _ in range(30).
KILL_POLLS == 30

\* RecordingSessions and stop tasks that may be started.
MaxSessions == 2
MaxStops == 2

\* Blocks the audio callback may deliver in all, and frames per block.
MaxBlocks == 2
BlockFrames == 4000

\* Screenshots that may be pending, and upload requests that may be made.
MaxShots == 2
MaxFlushes == 2

\* time.time() when the listener starts, in ticks, and the ticks modelled after it.
Epoch == 10
MaxTicks == 4

\* SAMPLE_RATE = 16000; DOUBLE_TAP_THRESHOLD = 0.5 s = 2 ticks of 250 ms.
SAMPLE_RATE == 16000
DOUBLE_TAP_THRESHOLD == 2
TicksPerSecond == 4

Sessions == 1..MaxSessions
Stops == 1..MaxStops
Keys == {"esc", "down", "up", "right"}

Procs == 1..MaxProcs

\* A pid left in the PID file by an instance of an earlier boot: no process.
StalePid == MaxProcs + 1

\* The pid of a live process of another user (the recorded pid was reused):
\* os.kill(pid, 0) and os.kill(pid, SIGTERM) raise PermissionError.
ForeignPid == MaxProcs + 2

\* The largest pid_t (2^31 - 1 in the build; here the largest pid in use):
\* os.kill raises OverflowError for a greater integer.
PID_T_MAX == ForeignPid

\* An integer that int() accepts from the PID file and os.kill does not.
HugePid == PID_T_MAX + 1

VARIABLES
    kind,       \* kind[p]: "none" | "start_fg" | "start_bg" | "daemon" | "status" | "stop"
    pc,         \* pc[p]: position of process p in its command
    target,     \* target[p]: pid kill_existing_process read from the PID file
    polls,      \* polls[p]: iterations done of the 30-poll loop
    pidfile,    \* PID_FILE: [exists, valid, pid]
    metafile,   \* META_FILE: [exists, owner] (owner: the process that wrote it)
    handlers,   \* processes with handle_sigterm installed
    armed,      \* processes with signal.alarm(TIMEOUT_SECONDS) pending
    atexits,    \* processes with atexit.register(cleanup_pid_file) done
    sigterm,    \* processes with a SIGTERM sent and not yet delivered
    exitcode,   \* exitcode[p]: "none" | "0" | "1" | "SIGTERM" | "SIGKILL"
    cause,      \* cause[p]: what ended p: "none" | "return" | "SIGTERM" | "SIGALRM" | "SIGKILL"
    wrote,      \* wrote[p]: the files p has written: subset of {"pid", "meta"}
    hist        \* bookkeeping of the start invocations (see InvokeStart)

lockVars == <<kind, pc, target, polls, pidfile, metafile, handlers, armed,
              atexits, sigterm, exitcode, cause, wrote, hist>>

VARIABLES
    clock,            \* time.time(), in ticks of 250 ms
    API_TOKEN,        \* TRUE iff the token given to start is a non-empty string
    screenshot_list,  \* PendingArtifacts: indices i of the paths screenshot_i.jpg
    current_keys,     \* KeyState
    last_esc_time,    \* GestureClock, in ticks of 250 ms (0 before the first ESC press)
    is_recording,     \* RecordingSession.active
    audio_thread,     \* the session whose record_audio thread the global names (0: None)
    audio_data,       \* the frame buffer: a sequence of blocks
    producer,         \* producer[s]: "none" | "created" | "streaming" | "ended"
    stoppc,           \* stoppc[t]: position of stop task t in stop_voice_recording_and_send
    stopfor,          \* stopfor[t]: the session that was active when t was spawned
    heard,            \* heard[t]: the blocks t read from audio_data (while t runs)
    mishap,           \* mishap[s]: a stop task spawned for s failed to write or to transcribe
    nsessions,        \* RecordingSessions started so far
    released,         \* released[s]: the buffer at s's first tap-key release: "no" (none yet) | "short" | "enough"
    transcribed,      \* transcribed[s]: transcribe_audio calls of the stop tasks spawned for s
    sent,             \* sent[s]: send_transcribed_text calls of the stop tasks spawned for s
    tempfiles,        \* the recording_<second>.wav files in AUDIO_DIR, by their second
    temppath,         \* temppath[t]: the second in stop task t's temp_audio_path (0: unset)
    flushes,          \* requests.post calls made by send_screenshots
    last              \* the last key event handled and what it did; seq flips at each event

keyVars == <<clock, API_TOKEN, screenshot_list, current_keys, last_esc_time,
             is_recording, audio_thread, audio_data, producer, stoppc, stopfor,
             heard, mishap, nsessions, released, transcribed, sent, flushes, last, tempfiles, temppath>>

vars == <<lockVars, keyVars>>

\* ------------------------------------------------------------ files
NoPidFile == [exists |-> FALSE, valid |-> FALSE, pid |-> 0]
NoMetaFile == [exists |-> FALSE, owner |-> 0]

\* PID_FILE.write_text(str(os.getpid()))
PidFileOf(p) == [exists |-> TRUE, valid |-> TRUE, pid |-> p]

\* A PID file whose text int() rejects.
GarbagePidFile == [exists |-> TRUE, valid |-> FALSE, pid |-> 0]

\* get_pid_from_file: the pid, or 0 for None.
get_pid_from_file ==
    IF ~pidfile.exists THEN 0
    ELSE IF ~pidfile.valid THEN 0
    ELSE IF pidfile.pid > 0 THEN pidfile.pid ELSE 0

\* Process p exists.
Alive(p) == (p \in Procs /\ pc[p] \notin {"none", "dead"}) \/ p = ForeignPid

\* is_process_running, line 87: os.kill(pid, 0) raises OverflowError, which
\* the function does not catch.
KillRaises(pid) == pid > PID_T_MAX

\* is_process_running (for a pid os.kill accepts): True when the process
\* exists, PermissionError included; False on ProcessLookupError.
is_process_running(pid) == Alive(pid)

\* kill_existing_process, line 145: os.kill(pid, SIGTERM) raises
\* PermissionError, which the try does not catch.
SignalForbidden(pid) == pid = ForeignPid

\* cleanup_pid_file: unlink PID_FILE and META_FILE if they exist.
cleanup_pid_file ==
    /\ pidfile' = NoPidFile
    /\ metafile' = NoMetaFile

\* ------------------------------------------------------------ processes
\* The next process id: processes are created in order.
NewPid == Cardinality({p \in Procs : kind[p] # "none"}) + 1

\* No command is in progress: every process is unborn, a listening agent or gone.
Quiet == \A q \in Procs : pc[q] \in {"none", "run", "dead"}

\* Process p ends: its handlers, alarm and pending signals go with it.
Exit(p, code, why) ==
    /\ pc' = [pc EXCEPT ![p] = "dead"]
    /\ exitcode' = [exitcode EXCEPT ![p] = code]
    /\ cause' = [cause EXCEPT ![p] = why]
    /\ armed' = armed \ {p}
    /\ sigterm' = sigterm \ {p}
    /\ handlers' = handlers \ {p}
    /\ atexits' = atexits \ {p}

\* An exception no handler catches ends command p: traceback, exit status 1.
Crash(p) ==
    /\ Exit(p, "1", "exception")
    /\ UNCHANGED <<kind, target, polls, pidfile, metafile, hist>>

\* main(): `start --token T` or `start --token T --background` is invoked.
\* hist records, for the latest start invocation: cur (the invoking process),
\* agent (the process that will listen: cur itself, or the daemon it spawns,
\* 0 until spawned), prev (the agent of the start invoked just before, if that
\* agent was listening, no other command was in progress and no other
\* invocation came in between; else 0) and n (start invocations so far).
InvokeStart(background) ==
    /\ NewPid \in Procs
    /\ LET p == NewPid IN
        /\ kind' = [kind EXCEPT ![p] = IF background THEN "start_bg" ELSE "start_fg"]
        /\ pc' = [pc EXCEPT ![p] = "kill"]
        /\ hist' = [cur |-> p,
                    agent |-> IF background THEN 0 ELSE p,
                    prev |-> IF hist.last = "start" /\ hist.agent # 0 /\ Quiet
                                  /\ pc[hist.agent] = "run"
                             THEN hist.agent ELSE 0,
                    last |-> "start",
                    n |-> hist.n + 1]
    /\ UNCHANGED <<target, polls, pidfile, metafile, handlers, armed, atexits,
                   sigterm, exitcode, cause, wrote, keyVars>>

\* main(): `stop` is invoked.
InvokeStop ==
    /\ NewPid \in Procs
    /\ kind' = [kind EXCEPT ![NewPid] = "stop"]
    /\ pc' = [pc EXCEPT ![NewPid] = "kill"]
    /\ hist' = [hist EXCEPT !.last = "stop", !.prev = 0]
    /\ UNCHANGED <<target, polls, pidfile, metafile, handlers, armed, atexits,
                   sigterm, exitcode, cause, wrote, keyVars>>

\* f with the process `victim` (0: none) mapped to v: the effect of SIGKILL.
Mark(f, victim, v) == IF victim = 0 THEN f ELSE [f EXCEPT ![victim] = v]

\* What follows kill_existing_process in p's command, `killed` its result and
\* `victim` the process it sent SIGKILL to (0: none):
\* cmd_stop returns 0 or 1; cmd_start --background spawns the daemon
\* (start_background_process) and returns; cmd_start in foreground goes on.
AfterKill(p, killed, victim) ==
    /\ armed' = armed \ {victim}
    /\ sigterm' = sigterm \ {victim}
    /\ handlers' = handlers \ {victim}
    /\ atexits' = atexits \ {victim}
    /\ target' = [target EXCEPT ![p] = 0]
    /\ polls' = [polls EXCEPT ![p] = 0]
    /\ CASE kind[p] = "stop" ->
            /\ pc' = [Mark(pc, victim, "dead") EXCEPT ![p] = "dead"]
            /\ exitcode' = [Mark(exitcode, victim, "SIGKILL") EXCEPT
                              ![p] = IF killed THEN "0" ELSE "1"]
            /\ cause' = [Mark(cause, victim, "SIGKILL") EXCEPT ![p] = "return"]
            /\ UNCHANGED <<kind, hist>>
         [] kind[p] = "start_bg" ->
            /\ NewPid \in Procs
            /\ kind' = [kind EXCEPT ![NewPid] = "daemon"]
            /\ pc' = [Mark(pc, victim, "dead") EXCEPT ![p] = "dead", ![NewPid] = "boot"]
            /\ exitcode' = [Mark(exitcode, victim, "SIGKILL") EXCEPT ![p] = "0"]
            /\ cause' = [Mark(cause, victim, "SIGKILL") EXCEPT ![p] = "return"]
            /\ hist' = IF hist.cur = p THEN [hist EXCEPT !.agent = NewPid] ELSE hist
         [] OTHER ->
            /\ pc' = [Mark(pc, victim, "dead") EXCEPT ![p] = "sig"]
            /\ exitcode' = Mark(exitcode, victim, "SIGKILL")
            /\ cause' = Mark(cause, victim, "SIGKILL")
            /\ UNCHANGED <<kind, hist>>

\* kill_existing_process, lines 139-145: read the record; not running: clean up
\* and return False; running: send SIGTERM and start polling. An exception of
\* os.kill other than ProcessLookupError leaves the function and the command.
KillEnter(p) ==
    /\ pc[p] = "kill"
    /\ LET pid == get_pid_from_file IN
       IF pid # 0 /\ KillRaises(pid)
       THEN Crash(p)
       ELSE IF pid = 0 \/ ~is_process_running(pid)
       THEN /\ cleanup_pid_file
            /\ AfterKill(p, FALSE, 0)
       ELSE IF SignalForbidden(pid)
       THEN Crash(p)
       ELSE /\ sigterm' = sigterm \cup {pid}
            /\ target' = [target EXCEPT ![p] = pid]
            /\ polls' = [polls EXCEPT ![p] = 0]
            /\ pc' = [pc EXCEPT ![p] = "poll"]
            /\ UNCHANGED <<kind, pidfile, metafile, handlers, armed, atexits,
                           exitcode, cause, hist>>
    /\ UNCHANGED <<wrote, keyVars>>

\* kill_existing_process, line 147, with one iteration fewer.
FewerPolls == KILL_POLLS - 1

\* kill_existing_process, line 147: the iterations of `for _ in range(30)`.
PollLimit == KILL_POLLS

\* kill_existing_process, lines 147-158: one iteration of the poll loop
\* (sleep 0.1 s, is_process_running). Dead: break, clean up, return True.
\* Alive at the 30th poll: the loop ends, SIGKILL, clean up, return True.
KillPoll(p) ==
    /\ pc[p] = "poll"
    /\ LET pid == target[p] IN
       IF ~is_process_running(pid)
       THEN /\ cleanup_pid_file
            /\ AfterKill(p, TRUE, 0)
       ELSE IF polls[p] + 1 < PollLimit
       THEN /\ polls' = [polls EXCEPT ![p] = polls[p] + 1]
            /\ UNCHANGED <<kind, pc, target, pidfile, metafile, handlers, armed,
                           atexits, sigterm, exitcode, cause, hist>>
       ELSE /\ cleanup_pid_file
            /\ AfterKill(p, TRUE, pid)
    /\ UNCHANGED <<wrote, keyVars>>

\* ------------------------------------------------------------ the agent
\* cmd_start with --daemon, lines 615-616: write_pid_file, atexit.register.
DaemonWritePid(p) ==
    /\ kind[p] = "daemon" /\ pc[p] = "boot"
    /\ pidfile' = PidFileOf(p)
    /\ atexits' = atexits \cup {p}
    /\ wrote' = [wrote EXCEPT ![p] = @ \cup {"pid"}]
    /\ pc' = [pc EXCEPT ![p] = "alarm"]
    /\ UNCHANGED <<kind, target, polls, metafile, handlers, armed, sigterm,
                   exitcode, cause, hist, keyVars>>

\* cmd_start with --daemon, lines 619-623, without signal.alarm: no timer is set.
DaemonSetNoAlarm(p) ==
    /\ kind[p] = "daemon" /\ pc[p] = "alarm"
    /\ pc' = [pc EXCEPT ![p] = "sig"]
    /\ UNCHANGED <<kind, target, polls, pidfile, metafile, handlers, armed, atexits,
                   sigterm, exitcode, cause, wrote, hist, keyVars>>

\* cmd_start with --daemon, lines 619-623: logging to the file, the SIGALRM
\* handler, signal.alarm(TIMEOUT_SECONDS).
DaemonSetAlarm(p) ==
    /\ kind[p] = "daemon" /\ pc[p] = "alarm"
    /\ armed' = armed \cup {p}
    /\ pc' = [pc EXCEPT ![p] = "sig"]
    /\ UNCHANGED <<kind, target, polls, pidfile, metafile, handlers, atexits,
                   sigterm, exitcode, cause, wrote, hist, keyVars>>

\* cmd_start, line 628: signal.signal(SIGTERM, handle_sigterm).
InstallSigterm(p) ==
    /\ kind[p] \in {"daemon", "start_fg"} /\ pc[p] = "sig"
    /\ handlers' = handlers \cup {p}
    /\ pc' = [pc EXCEPT ![p] = "meta"]
    /\ UNCHANGED <<kind, target, polls, pidfile, metafile, armed, atexits,
                   sigterm, exitcode, cause, wrote, hist, keyVars>>

\* write_meta_file, and cmd_start lines 631-650: the listener starts.
WriteMeta(p) ==
    /\ kind[p] \in {"daemon", "start_fg"} /\ pc[p] = "meta"
    /\ metafile' = [exists |-> TRUE, owner |-> p]
    /\ wrote' = [wrote EXCEPT ![p] = @ \cup {"meta"}]
    /\ pc' = [pc EXCEPT ![p] = "run"]
    /\ UNCHANGED <<kind, target, polls, pidfile, handlers, armed, atexits,
                   sigterm, exitcode, cause, hist, keyVars>>

\* handle_sigterm and handle_sigalrm: cleanup_pid_file, sys.exit(0).
GracefulExit(p, why) ==
    /\ cleanup_pid_file
    /\ Exit(p, "0", why)

\* A pending SIGTERM is delivered to p: the handler if it is installed, else
\* the default disposition, which ends the process at once (no atexit).
DeliverSigterm(p) ==
    /\ p \in sigterm /\ Alive(p)
    /\ IF p \in handlers
       THEN GracefulExit(p, "SIGTERM")
       ELSE /\ Exit(p, "SIGTERM", "SIGTERM")
            /\ UNCHANGED <<pidfile, metafile>>
    /\ UNCHANGED <<kind, target, polls, wrote, hist, keyVars>>

\* The alarm set by signal.alarm(TIMEOUT_SECONDS) expires: handle_sigalrm.
AlarmFires(p) ==
    /\ p \in armed /\ Alive(p)
    /\ GracefulExit(p, "SIGALRM")
    /\ UNCHANGED <<kind, target, polls, wrote, hist, keyVars>>

\* cmd_status, lines 685-690: not running; a PID file found is cleaned up.
StatusNotRunning(p) ==
    /\ exitcode' = [exitcode EXCEPT ![p] = "1"]
    /\ IF pidfile.exists
       THEN cleanup_pid_file
       ELSE UNCHANGED <<pidfile, metafile>>

\* cmd_status, lines 655-684: running; the meta file is read and printed.
StatusRunning(p) ==
    /\ exitcode' = [exitcode EXCEPT ![p] = "0"]
    /\ UNCHANGED <<pidfile, metafile>>

\* cmd_status, line 656: is_process_running raises; traceback, exit status 1.
StatusRaises(p) ==
    /\ exitcode' = [exitcode EXCEPT ![p] = "1"]
    /\ UNCHANGED <<pidfile, metafile>>

\* cmd_status, as one step (it makes no blocking call); target[p] keeps the
\* pid it read.
CmdStatus ==
    /\ NewPid \in Procs
    /\ LET p == NewPid
           pid == get_pid_from_file
       IN
        /\ kind' = [kind EXCEPT ![p] = "status"]
        /\ pc' = [pc EXCEPT ![p] = "dead"]
        /\ cause' = [cause EXCEPT ![p] = IF pid # 0 /\ KillRaises(pid)
                                          THEN "exception" ELSE "return"]
        /\ target' = [target EXCEPT ![p] = pid]
        /\ IF pid # 0 /\ KillRaises(pid)
           THEN StatusRaises(p)
           ELSE IF pid # 0 /\ is_process_running(pid)
           THEN StatusRunning(p)
           ELSE StatusNotRunning(p)
    /\ hist' = [hist EXCEPT !.last = "status", !.prev = 0]
    /\ UNCHANGED <<polls, handlers, armed, atexits, sigterm, wrote, keyVars>>

\* ------------------------------------------------------------ dispatcher
\* The key events reach on_press / on_release while an agent is listening.
ListenerUp == \E p \in Procs : kind[p] \in {"start_fg", "daemon"} /\ pc[p] = "run"

\* The record of a handled key event.
Event(ev, key, did) == [ev |-> ev, key |-> key, did |-> did, seq |-> 1 - last.seq]

\* A tick of 250 ms passes.
Tick ==
    /\ ListenerUp
    /\ clock < Epoch + MaxTicks
    /\ clock' = clock + 1
    /\ UNCHANGED <<API_TOKEN, screenshot_list, current_keys, last_esc_time,
                   is_recording, audio_thread, audio_data, producer, stoppc, stopfor,
                   heard, mishap, nsessions, released, transcribed, sent, flushes,
                   last, lockVars, tempfiles, temppath>>

\* on_press, line 544, without the check: no press is taken for a repeat.
NeverRepeat == FALSE

\* on_press, line 544: ESC is already in current_keys.
IsRepeat == "esc" \in current_keys

\* on_press, line 551, with <= for <.
IsDoubleTapInclusive(current_time) ==
    current_time - last_esc_time <= DOUBLE_TAP_THRESHOLD /\ ~is_recording

\* on_press, lines 549-551: time_since_last < DOUBLE_TAP_THRESHOLD and not is_recording.
IsDoubleTap(current_time) ==
    current_time - last_esc_time < DOUBLE_TAP_THRESHOLD /\ ~is_recording

\* start_voice_recording (is_recording is False here): the flag, a fresh
\* buffer, a new record_audio thread.
start_voice_recording ==
    /\ nsessions < MaxSessions
    /\ nsessions' = nsessions + 1
    /\ is_recording' = TRUE
    /\ audio_data' = <<>>
    /\ audio_thread' = nsessions + 1
    /\ producer' = [producer EXCEPT ![nsessions + 1] = "created"]

\* How the time since the last ESC press compares with the threshold, for the
\* record of the event: "first" (no press before), "under", "at" or "over".
Gap(now) ==
    IF last_esc_time = 0 THEN "first"
    ELSE IF now - last_esc_time < DOUBLE_TAP_THRESHOLD THEN "under"
    ELSE IF now - last_esc_time = DOUBLE_TAP_THRESHOLD THEN "at"
    ELSE "over"

\* on_press(Key.esc), lines 542-556; `now` is what time.time() returns.
PressEsc(now) ==
    IF IsRepeat
    THEN /\ last' = Event("press", "esc", "repeat")
         /\ UNCHANGED <<current_keys, last_esc_time, is_recording, audio_thread,
                        audio_data, producer, nsessions>>
    ELSE /\ current_keys' = current_keys \cup {"esc"}
         /\ last_esc_time' = now
         /\ last' = Event("press", "esc", Gap(now))
         /\ IF IsDoubleTap(now)
            THEN start_voice_recording
            ELSE UNCHANGED <<is_recording, audio_thread, audio_data, producer,
                             nsessions>>

\* send_screenshots, lines 334-336, clearing the list whatever the response.
FlushResultAlways(outcome) == <<>>

\* send_screenshots, lines 334-340, dropping the first path after a failed upload.
FlushResultDropFirst(outcome) == IF outcome = "200" THEN <<>> ELSE Tail(screenshot_list)

\* send_screenshots, lines 334-340: the list after the upload's outcome.
FlushResult(outcome) == IF outcome = "200" THEN <<>> ELSE screenshot_list

\* capture_screenshot: SCREENSHOT_DIR.mkdir (line 280, outside the try) raises
\* ("mkdir_raises"), or the window lookup, grab or save fails inside the try
\* ("failed"), or the screenshot is saved and queued ("ok").
capture_screenshot(r) ==
    /\ CASE r = "ok" ->
               /\ Len(screenshot_list) < MaxShots
               /\ screenshot_list' = Append(screenshot_list, Len(screenshot_list))
               /\ last' = Event("press", "down", "captured")
         [] r = "failed" ->
               /\ screenshot_list' = screenshot_list
               /\ last' = Event("press", "down", "capture_failed")
         [] OTHER ->
               /\ screenshot_list' = screenshot_list
               /\ last' = Event("press", "down", "mkdir_raises")
    /\ UNCHANGED flushes

\* send_screenshots: `readable` are the queued files that exist; `outcome` is
\* "open_raises" when open(f, "rb") (line 319, outside the try) raises for one
\* of them, else the upload's: "200", "500" (any other status) or "raise".
send_screenshots(readable, outcome) ==
    IF ~API_TOKEN
    THEN /\ last' = Event("press", "up", "no_token")
         /\ UNCHANGED <<screenshot_list, flushes>>
    ELSE IF screenshot_list = <<>>
    THEN /\ last' = Event("press", "up", "nothing")
         /\ UNCHANGED <<screenshot_list, flushes>>
    ELSE IF readable = {}
    THEN /\ last' = Event("press", "up", "no_file")
         /\ UNCHANGED <<screenshot_list, flushes>>
    ELSE IF outcome = "open_raises"
    THEN /\ last' = Event("press", "up", "open_raises")
         /\ UNCHANGED <<screenshot_list, flushes>>
    ELSE /\ flushes < MaxFlushes
         /\ flushes' = flushes + 1
         /\ screenshot_list' = FlushResult(outcome)
         /\ last' = Event("press", "up", outcome)

\* on_press(key) for a key other than ESC, lines 559-574.
PressOther(key) ==
    /\ current_keys' = current_keys \cup {key}
    /\ IF "esc" \notin current_keys
       THEN /\ last' = Event("press", key, "none")
            /\ UNCHANGED <<screenshot_list, flushes>>
       ELSE CASE key = "down" ->
                    \E r \in {"ok", "failed", "mkdir_raises"} : capture_screenshot(r)
              [] key = "up" ->
                    \E readable \in SUBSET (1..Len(screenshot_list)) :
                    \E outcome \in {"200", "500", "raise", "open_raises"} :
                        send_screenshots(readable, outcome)
              [] OTHER -> \* send_clipboard_text: nothing of the state changes
                    /\ last' = Event("press", key, "none")
                    /\ UNCHANGED <<screenshot_list, flushes>>
    /\ UNCHANGED <<last_esc_time, is_recording, audio_thread, audio_data,
                   producer, nsessions>>

\* The outcomes of on_press in which an exception leaves the handler: on_press
\* catches AttributeError only (lines 575-576).
Raised == {"mkdir_raises", "open_raises"}

\* The listener of agent p ends with an exception: the listener thread stops,
\* listener.join() (line 650) re-raises in cmd_start and main ends with a
\* traceback, exit status 1. The atexit handlers run: cleanup_pid_file if it
\* was registered (line 616, the daemon only).
ListenerRaises(p) ==
    /\ Exit(p, "1", "exception")
    /\ IF p \in atexits
       THEN cleanup_pid_file
       ELSE UNCHANGED <<pidfile, metafile>>
    /\ UNCHANGED <<kind, target, polls, wrote, hist>>

\* on_press; an exception that leaves the handler ends the listener.
OnPress(key) ==
    /\ ListenerUp
    /\ IF key = "esc"
       THEN /\ PressEsc(clock)
            /\ UNCHANGED <<screenshot_list, flushes>>
       ELSE PressOther(key)
    /\ IF last'.did \in Raised
       THEN \E p \in Procs :
               /\ kind[p] \in {"start_fg", "daemon"} /\ pc[p] = "run"
               /\ ListenerRaises(p)
       ELSE UNCHANGED lockVars
    /\ UNCHANGED <<API_TOKEN, stoppc, stopfor, heard, mishap, released,
                   transcribed, sent, clock, tempfiles, temppath>>

\* The key-event source of agent p fails by itself (the connection to the
\* display is lost, the platform's event tap is removed): the listener ends
\* with the exception.
ListenerFails(p) ==
    /\ kind[p] \in {"start_fg", "daemon"} /\ pc[p] = "run"
    /\ ListenerRaises(p)
    /\ UNCHANGED keyVars

\* Frames in a sequence of blocks.
Frames(blocks) == Len(blocks) * BlockFrames

\* The stop tasks not yet started.
FreeStops == {t \in Stops : stoppc[t] = "none"}

\* on_release: the key leaves current_keys; ESC released while recording
\* starts a stop_voice_recording_and_send thread.
OnRelease(key) ==
    /\ ListenerUp
    /\ current_keys' = current_keys \ {key}
    /\ IF is_recording /\ key = "esc"
       THEN /\ FreeStops # {}
            /\ LET t == CHOOSE x \in FreeStops : \A y \in FreeStops : x <= y IN
               /\ stoppc' = [stoppc EXCEPT ![t] = "check"]
               /\ stopfor' = [stopfor EXCEPT ![t] = nsessions]
            /\ released' = IF released[nsessions] = "no"
                           THEN [released EXCEPT ![nsessions] =
                                    IF 2 * Frames(audio_data) < SAMPLE_RATE
                                    THEN "short" ELSE "enough"]
                           ELSE released
            /\ last' = Event("release", key, "none")
       ELSE /\ last' = Event("release", key, "none")
            /\ UNCHANGED <<stoppc, stopfor, released>>
    /\ UNCHANGED <<API_TOKEN, screenshot_list, last_esc_time, is_recording,
                   audio_thread, audio_data, producer, heard, mishap, nsessions,
                   transcribed, sent, flushes, clock, lockVars, tempfiles, temppath>>

\* ------------------------------------------------------------ recording
\* record_audio, lines 392-404: the buffer is reset and the input stream
\* opened (ok) or refused (microphone error, the thread ends).
ProducerStart(s, ok) ==
    /\ ListenerUp
    /\ producer[s] = "created"
    /\ audio_data' = <<>>
    /\ producer' = [producer EXCEPT ![s] = IF ok THEN "streaming" ELSE "ended"]
    /\ UNCHANGED <<API_TOKEN, screenshot_list, current_keys, last_esc_time,
                   is_recording, audio_thread, stoppc, stopfor, heard, mishap,
                   nsessions, released, transcribed, sent, flushes, last, clock, lockVars, tempfiles, temppath>>

\* audio_callback of session s's stream: the stream has filled a block of
\* BlockFrames frames, which takes a tick; it is appended while is_recording.
AudioCallback(s) ==
    /\ ListenerUp
    /\ producer[s] = "streaming"
    /\ is_recording
    /\ Len(audio_data) < MaxBlocks
    /\ clock < Epoch + MaxTicks
    /\ clock' = clock + 1
    /\ audio_data' = Append(audio_data, "block")
    /\ UNCHANGED <<API_TOKEN, screenshot_list, current_keys, last_esc_time,
                   is_recording, audio_thread, producer, stoppc, stopfor, heard,
                   mishap, nsessions, released, transcribed, sent, flushes, last,
                   lockVars, tempfiles, temppath>>

\* record_audio, lines 405-406: the loop finds is_recording false; the stream
\* is closed and the thread ends.
ProducerExit(s) ==
    /\ ListenerUp
    /\ producer[s] = "streaming"
    /\ ~is_recording
    /\ producer' = [producer EXCEPT ![s] = "ended"]
    /\ UNCHANGED <<API_TOKEN, screenshot_list, current_keys, last_esc_time,
                   is_recording, audio_thread, audio_data, stoppc, stopfor, heard,
                   mishap, nsessions, released, transcribed, sent, flushes, last,
                   clock, lockVars, tempfiles, temppath>>

\* stop_voice_recording_and_send, line 453, with the limit at a quarter second.
TooShortQuarter(blocks) == 4 * Frames(blocks) < SAMPLE_RATE

\* stop_voice_recording_and_send, lines 441 and 453: no audio, or fewer than
\* SAMPLE_RATE * 0.5 frames.
TooShort(blocks) == blocks = <<>> \/ 2 * Frames(blocks) < SAMPLE_RATE

\* int(time.time()) for a clock reading in ticks (line 459).
Sec(t) == t \div TicksPerSecond

\* The finally clause, lines 473-479, without the unlink.
RemoveNever(path) == tempfiles

\* The finally clause, lines 473-479: the file at temp_audio_path, if there, is unlinked.
Remove(path) == tempfiles \ {path}

\* audio_thread.join(timeout=1.0), line 438, returns: the thread has ended,
\* or the second has passed. record_audio looks at is_recording every 100 ms
\* (line 405-406), so the thread outlives the second only when is_recording
\* is true again.
JoinReturns ==
    \/ audio_thread = 0
    \/ producer[audio_thread] = "ended"
    \/ is_recording

\* stop_voice_recording_and_send, one step of stop task t.
StopStep(t) ==
    /\ ListenerUp
    /\ CASE stoppc[t] = "check" ->       \* line 430
            /\ stoppc' = [stoppc EXCEPT ![t] = IF is_recording THEN "set" ELSE "done"]
            /\ UNCHANGED <<is_recording, heard, mishap, transcribed, sent, tempfiles, temppath>>
         [] stoppc[t] = "set" ->         \* line 434
            /\ is_recording' = FALSE
            /\ stoppc' = [stoppc EXCEPT ![t] = "join"]
            /\ UNCHANGED <<heard, mishap, transcribed, sent, tempfiles, temppath>>
         [] stoppc[t] = "join" ->        \* lines 437-438: audio_thread.join(timeout=1.0)
            /\ JoinReturns
            /\ stoppc' = [stoppc EXCEPT ![t] = "read"]
            /\ UNCHANGED <<is_recording, heard, mishap, transcribed, sent, tempfiles, temppath>>
         [] stoppc[t] = "read" ->        \* lines 441-455
            /\ IF TooShort(audio_data)
               THEN /\ stoppc' = [stoppc EXCEPT ![t] = "done"]
                    /\ UNCHANGED heard
               ELSE /\ stoppc' = [stoppc EXCEPT ![t] = "write"]
                    /\ heard' = [heard EXCEPT ![t] = audio_data]
            /\ UNCHANGED <<is_recording, mishap, transcribed, sent, tempfiles, temppath>>
         [] stoppc[t] = "write" ->       \* lines 458-462: mkdir, the path, sf.write
            /\ \E r \in {"ok", "mkdir_raises", "write_raises"} :
                /\ stoppc' = [stoppc EXCEPT ![t] = IF r = "ok" THEN "transcribe" ELSE "done"]
                /\ heard' = [heard EXCEPT ![t] = IF r = "ok" THEN @ ELSE <<>>]
                /\ mishap' = [mishap EXCEPT ![stopfor[t]] = @ \/ r # "ok"]
                /\ tempfiles' = CASE r = "ok" -> tempfiles \cup {Sec(clock)}
                                  [] r = "mkdir_raises" -> tempfiles
                                  [] OTHER -> Remove(Sec(clock))
                /\ temppath' = [temppath EXCEPT ![t] = IF r = "ok" THEN Sec(clock) ELSE 0]
            /\ UNCHANGED <<is_recording, transcribed, sent>>
         [] stoppc[t] = "transcribe" ->  \* line 465: transcribe_audio; finally if no text
            /\ transcribed' = [transcribed EXCEPT ![stopfor[t]] = @ + 1]
            /\ \E r \in {"text", "empty", "failed"} :
                /\ temppath[t] \notin tempfiles => r = "failed"
                /\ stoppc' = [stoppc EXCEPT ![t] = IF r = "text" THEN "send" ELSE "done"]
                /\ heard' = [heard EXCEPT ![t] = IF r = "text" THEN @ ELSE <<>>]
                /\ mishap' = [mishap EXCEPT ![stopfor[t]] = @ \/ r # "text"]
                /\ tempfiles' = IF r = "text" THEN tempfiles ELSE Remove(temppath[t])
                /\ temppath' = [temppath EXCEPT ![t] = IF r = "text" THEN @ ELSE 0]
            /\ UNCHANGED <<is_recording, sent>>
         [] stoppc[t] = "send" ->        \* lines 467-479: send_transcribed_text, finally
            /\ sent' = [sent EXCEPT ![stopfor[t]] = @ + 1]
            /\ stoppc' = [stoppc EXCEPT ![t] = "done"]
            /\ heard' = [heard EXCEPT ![t] = <<>>]
            /\ tempfiles' = Remove(temppath[t])
            /\ temppath' = [temppath EXCEPT ![t] = 0]
            /\ UNCHANGED <<is_recording, mishap, transcribed>>
         [] OTHER -> FALSE
    /\ UNCHANGED <<API_TOKEN, screenshot_list, current_keys, last_esc_time,
                   audio_thread, audio_data, producer, stopfor, nsessions,
                   released, flushes, last, clock, lockVars>>

\* ------------------------------------------------------------ specification
\* The dispatcher's module-level state, lines 44-55.
InitKeys ==
    /\ clock = Epoch
    /\ API_TOKEN \in BOOLEAN
    /\ screenshot_list = <<>>
    /\ current_keys = {}
    /\ last_esc_time = 0
    /\ is_recording = FALSE
    /\ audio_thread = 0
    /\ audio_data = <<>>
    /\ producer = [s \in Sessions |-> "none"]
    /\ stoppc = [t \in Stops |-> "none"]
    /\ stopfor = [t \in Stops |-> 0]
    /\ heard = [t \in Stops |-> <<>>]
    /\ mishap = [s \in Sessions |-> FALSE]
    /\ nsessions = 0
    /\ released = [s \in Sessions |-> "no"]
    /\ transcribed = [s \in Sessions |-> 0]
    /\ sent = [s \in Sessions |-> 0]
    /\ tempfiles = {}
    /\ temppath = [t \in Stops |-> 0]
    /\ flushes = 0
    /\ last = [ev |-> "none", key |-> "none", did |-> "none", seq |-> 0]

InitLock ==
    /\ kind = [p \in Procs |-> "none"]
    /\ pc = [p \in Procs |-> "none"]
    /\ target = [p \in Procs |-> 0]
    /\ polls = [p \in Procs |-> 0]
    /\ \/ pidfile = NoPidFile /\ metafile = NoMetaFile
       \/ /\ pidfile \in {GarbagePidFile, PidFileOf(StalePid), PidFileOf(ForeignPid),
                         PidFileOf(HugePid)}
          /\ metafile = [exists |-> TRUE, owner |-> StalePid]
    /\ handlers = {}
    /\ armed = {}
    /\ atexits = {}
    /\ sigterm = {}
    /\ exitcode = [p \in Procs |-> "none"]
    /\ cause = [p \in Procs |-> "none"]
    /\ wrote = [p \in Procs |-> {}]
    /\ hist = [cur |-> 0, agent |-> 0, prev |-> 0, last |-> "none", n |-> 0]
    /\ InitKeys
    /\ API_TOKEN = TRUE

NextLock ==
    \/ \E b \in BOOLEAN : InvokeStart(b)
    \/ InvokeStop
    \/ CmdStatus
    \/ \E p \in Procs :
        \/ KillEnter(p)
        \/ KillPoll(p)
        \/ DaemonWritePid(p)
        \/ DaemonSetAlarm(p)
        \/ InstallSigterm(p)
        \/ WriteMeta(p)
        \/ DeliverSigterm(p)
        \/ AlarmFires(p)

SpecLock == InitLock /\ [][NextLock]_vars

\* The dispatcher of one agent started in the foreground and listening.
InitAgent ==
    /\ kind = [p \in Procs |-> IF p = 1 THEN "start_fg" ELSE "none"]
    /\ pc = [p \in Procs |-> IF p = 1 THEN "run" ELSE "none"]
    /\ target = [p \in Procs |-> 0]
    /\ polls = [p \in Procs |-> 0]
    /\ pidfile = NoPidFile
    /\ metafile = [exists |-> TRUE, owner |-> 1]
    /\ handlers = {1}
    /\ armed = {}
    /\ atexits = {}
    /\ sigterm = {}
    /\ exitcode = [p \in Procs |-> "none"]
    /\ cause = [p \in Procs |-> "none"]
    /\ wrote = [p \in Procs |-> IF p = 1 THEN {"meta"} ELSE {}]
    /\ hist = [cur |-> 1, agent |-> 1, prev |-> 0, last |-> "start", n |-> 1]
    /\ InitKeys

\* The voice gesture: the tap key and the recording threads.
NextVoice ==
    \/ Tick
    \/ OnPress("esc")
    \/ OnRelease("esc")
    \/ \E s \in Sessions : \E ok \in BOOLEAN : ProducerStart(s, ok)
    \/ \E s \in Sessions : AudioCallback(s)
    \/ \E s \in Sessions : ProducerExit(s)
    \/ \E t \in Stops : StopStep(t)

SpecVoice == InitAgent /\ [][NextVoice]_vars

\* Fair scheduling of the background threads: a stop task or a record_audio
\* thread that can take its next step does so.
FairThreads ==
    /\ \A t \in Stops : WF_vars(StopStep(t))
    /\ \A s \in Sessions : WF_vars(\E ok \in BOOLEAN : ProducerStart(s, ok))
    /\ \A s \in Sessions : WF_vars(ProducerExit(s))

SpecVoiceFair == InitAgent /\ [][NextVoice]_vars /\ FairThreads

\* The key combinations: every key, the recording threads not scheduled.
NextShots ==
    \/ Tick
    \/ \E key \in Keys : OnPress(key)
    \/ \E key \in Keys : OnRelease(key)

SpecShots == InitAgent /\ [][NextShots]_vars

\* The state when `start --token T --background` has returned: process 1 ran
\* cmd_start, found no record, spawned the daemon (process 2) and exited.
InitDaemon ==
    /\ kind = [p \in Procs |-> CASE p = 1 -> "start_bg" [] p = 2 -> "daemon"
                                  [] OTHER -> "none"]
    /\ pc = [p \in Procs |-> CASE p = 1 -> "dead" [] p = 2 -> "boot"
                                [] OTHER -> "none"]
    /\ target = [p \in Procs |-> 0]
    /\ polls = [p \in Procs |-> 0]
    /\ pidfile = NoPidFile
    /\ metafile = NoMetaFile
    /\ handlers = {}
    /\ armed = {}
    /\ atexits = {}
    /\ sigterm = {}
    /\ exitcode = [p \in Procs |-> IF p = 1 THEN "0" ELSE "none"]
    /\ cause = [p \in Procs |-> IF p = 1 THEN "return" ELSE "none"]
    /\ wrote = [p \in Procs |-> {}]
    /\ hist = [cur |-> 1, agent |-> 2, prev |-> 0, last |-> "start", n |-> 1]
    /\ InitKeys

\* An agent, daemon or foreground, whose listener can fail: the daemon's
\* start-up, the key combinations, the failure of the key-event source.
InitCrash == InitDaemon \/ InitAgent

NextCrash ==
    \/ \E p \in Procs :
        \/ DaemonWritePid(p)
        \/ DaemonSetAlarm(p)
        \/ InstallSigterm(p)
        \/ WriteMeta(p)
        \/ ListenerFails(p)
    \/ Tick
    \/ \E key \in Keys : OnPress(key)
    \/ \E key \in Keys : OnRelease(key)

SpecCrash == InitCrash /\ [][NextCrash]_vars

\* The life of one agent, daemon or foreground, that no command replaces or
\* stops: its start-up, the alarm, and the dispatcher and its threads while it
\* listens.
NextLife ==
    \/ \E p \in Procs :
        \/ DaemonWritePid(p)
        \/ DaemonSetAlarm(p)
        \/ InstallSigterm(p)
        \/ WriteMeta(p)
        \/ AlarmFires(p)
    \/ OnPress("esc")
    \/ OnRelease("esc")
    \/ \E s \in Sessions : \E ok \in BOOLEAN : ProducerStart(s, ok)
    \/ \E s \in Sessions : AudioCallback(s)
    \/ \E s \in Sessions : ProducerExit(s)
    \/ \E t \in Stops : StopStep(t)

\* The main thread of a daemon runs its start-up to the listener, and the
\* kernel delivers SIGALRM when the timer set by signal.alarm expires.
FairLife ==
    /\ WF_vars(\E p \in Procs : DaemonWritePid(p) \/ DaemonSetAlarm(p))
    /\ WF_vars(\E p \in Procs : AlarmFires(p))

\* Started with a token, as a daemon or in the foreground.
InitLife == (InitDaemon \/ InitAgent) /\ API_TOKEN = TRUE

SpecLife == InitLife /\ [][NextLife]_vars /\ FairLife

\* ------------------------------------------------------------ lock claims
\* The agents that are alive and listening for keys.
Listening == {p \in Procs : kind[p] \in {"start_fg", "daemon"} /\ pc[p] = "run"}

\* C1: at every moment at most one agent process is alive and listening,
\* whatever start, start --background, status and stop invocations were made.
AtMostOneAgent == Cardinality(Listening) <= 1

\* C2: after two successive starts (the second invoked while the first one's
\* agent was listening, nothing else in progress or in between), once the
\* second start's agent is listening the PID file holds that agent's pid and
\* the first agent is gone.
LockSingularity ==
    (hist.prev # 0 /\ hist.agent # 0 /\ pc[hist.agent] = "run")
        => /\ pidfile = PidFileOf(hist.agent)
           /\ ~Alive(hist.prev)

\* The PID file exists and names no live process.
PidFileStale ==
    /\ pidfile.exists
    /\ ~pidfile.valid \/ pidfile.pid <= 0 \/ ~Alive(pidfile.pid)

\* The PID file names a live process.
PidFileLive == pidfile.exists /\ pidfile.valid /\ pidfile.pid > 0 /\ Alive(pidfile.pid)

\* A step in which `status` runs.
StatusStep == NewPid \in Procs /\ kind[NewPid] = "none" /\ kind'[NewPid] = "status"

\* C3: status on a stale PID file (dead or invalid pid) exits 1 and leaves
\* neither the PID file nor the meta file; status on a PID file naming a live
\* process exits 0 and leaves both files as they were.
StaleLockTolerance ==
    [][StatusStep =>
        /\ PidFileStale => /\ exitcode'[NewPid] = "1"
                           /\ ~pidfile'.exists
                           /\ ~metafile'.exists
        /\ PidFileLive => /\ exitcode'[NewPid] = "0"
                          /\ pidfile' = pidfile
                          /\ metafile' = metafile]_vars

\* C4: an agent that has written its PID file or meta file and is ended by
\* SIGTERM or by the timeout alarm exits with status 0 and leaves neither
\* file behind.
GracefulShutdownReleases ==
    \A p \in Procs :
        (cause[p] \in {"SIGTERM", "SIGALRM"} /\ wrote[p] # {})
            => /\ exitcode[p] = "0"
               /\ pidfile # PidFileOf(p)
               /\ ~(metafile.exists /\ metafile.owner = p)


\* ------------------------------------------------------------ dispatcher claims
\* A step in which on_press or on_release handles a key event.
KeyStep == last'.seq # last.seq

\* C6: an ESC press that arrives while ESC is in current_keys changes neither
\* KeyState nor the GestureClock nor the recording state, and starts nothing:
\* repeats of a held ESC never start a RecordingSession.
RepeatIgnored ==
    [][(KeyStep /\ last'.ev = "press" /\ last'.key = "esc" /\ "esc" \in current_keys)
        => UNCHANGED <<current_keys, last_esc_time, is_recording, audio_thread,
                       audio_data, producer, nsessions, stoppc, stopfor,
                       screenshot_list, flushes>>]_vars

\* ESC is held through a recording and a repeat press has been handled: the
\* session started by the double-tap is still the only one.
RepeatWitness ==
    /\ last.ev = "press" /\ last.key = "esc" /\ last.did = "repeat"
    /\ is_recording /\ nsessions = 1 /\ "esc" \in current_keys

\* C7: a non-repeat ESC press at t2 after one at t1 starts no session when
\* t2 - t1 is the threshold or more, and starts exactly one session when
\* t2 - t1 is under the threshold and no session is active.
DoubleTapBoundary ==
    [][(KeyStep /\ last'.ev = "press" /\ last'.key = "esc" /\ "esc" \notin current_keys)
        => /\ last_esc_time' - last_esc_time >= DOUBLE_TAP_THRESHOLD
                => nsessions' = nsessions /\ is_recording' = is_recording
           /\ (last_esc_time' - last_esc_time < DOUBLE_TAP_THRESHOLD /\ ~is_recording)
                => nsessions' = nsessions + 1 /\ is_recording']_vars

\* A double-tap under the threshold has started session 1, that session is
\* over, and a later press exactly the threshold after the one before it has
\* started nothing.
DoubleTapWitness ==
    /\ last.ev = "press" /\ last.key = "esc" /\ last.did = "at"
    /\ nsessions = 1 /\ ~is_recording

\* C8: a flush whose upload answers 200 leaves screenshot_list empty; a flush
\* with any other outcome leaves it as it was; a flush makes at most one
\* upload request and nothing else makes one.
FlushAtomicity ==
    [][IF KeyStep /\ last'.ev = "press" /\ last'.key = "up" /\ "esc" \in current_keys
       THEN /\ last'.did = "200" => screenshot_list' = <<>>
            /\ last'.did # "200" => screenshot_list' = screenshot_list
            /\ flushes' = IF last'.did \in {"200", "500", "raise"}
                          THEN flushes + 1 ELSE flushes
       ELSE flushes' = flushes]_vars

\* Two screenshots are still queued after an upload that failed.
FlushWitness ==
    /\ last.ev = "press" /\ last.key = "up" /\ last.did \in {"500", "raise"}
    /\ Len(screenshot_list) = 2 /\ flushes >= 1

\* A stop task is at a line of stop_voice_recording_and_send after the
\* minimum-duration check.
PastCheck(t) == stoppc[t] \in {"write", "transcribe", "send"}

\* C9: a stop task that finds the buffer empty or under 0.5 s of audio ends
\* there; transcribe_audio and send_transcribed_text are only ever called by a
\* stop task that read at least 0.5 s of audio.
MinimumDuration ==
    [][/\ \A t \in Stops :
            /\ (stoppc[t] = "read" /\ stoppc'[t] # "read"
                    /\ 2 * Len(audio_data) * BlockFrames < SAMPLE_RATE)
                  => stoppc'[t] = "done"
            /\ stoppc[t] = "done" => stoppc'[t] = "done"
            /\ PastCheck(t)' => 2 * Len(heard'[t]) * BlockFrames >= SAMPLE_RATE
       /\ \A s \in Sessions :
            (transcribed'[s] # transcribed[s] \/ sent'[s] # sent[s])
                => \E t \in Stops : stopfor[t] = s /\ PastCheck(t)]_vars

\* Session 1 recorded one block (0.25 s); its only stop task has run to the
\* end and nothing was transcribed or sent.
MinimumDurationWitness ==
    /\ nsessions = 1 /\ stoppc[1] = "done" /\ stoppc[2] = "none"
    /\ ~is_recording /\ Len(audio_data) = 1
    /\ transcribed[1] = 0 /\ sent[1] = 0 /\ ~mishap[1]

\* The stop tasks spawned by the releases that ended session s.
TasksOf(s) == {t \in Stops : stopfor[t] = s}

\* C10: a session ended by a tap-key release with at least 0.5 s of audio is
\* transcribed exactly once and its text sent exactly once (no failure to
\* write or to transcribe), in every interleaving of the threads.
ExactlyOnceHandoff ==
    \A s \in Sessions :
        /\ transcribed[s] <= 1
        /\ sent[s] <= 1
        /\ (released[s] = "enough" /\ ~mishap[s] /\ TasksOf(s) # {}
                /\ \A t \in TasksOf(s) : stoppc[t] = "done")
              => transcribed[s] = 1 /\ sent[s] = 1


\* ------------------------------------------------------------ lifetime claims
\* C5: every daemon eventually terminates, whatever key events, captures and
\* recording or transcription threads are under way; the process the alarm
\* ends exits with status 0 through the graceful handler; no process other
\* than a daemon ever has the timeout alarm pending.
BoundedLifetime ==
    /\ <>(\A p \in Procs : kind[p] = "daemon" => pc[p] = "dead")
    /\ [](\A p \in Procs :
            /\ p \in armed => kind[p] = "daemon"
            /\ cause[p] = "SIGALRM" =>
                    kind[p] = "daemon" /\ exitcode[p] = "0" /\ pidfile # PidFileOf(p))

\* The alarm has ended a daemon while a recording was on and a stop task was
\* about to transcribe.
BoundedLifetimeWitness ==
    \E p \in Procs :
        /\ kind[p] = "daemon" /\ cause[p] = "SIGALRM" /\ exitcode[p] = "0"
        /\ "esc" \in current_keys
        /\ \E t \in Stops : stoppc[t] = "transcribe"


\* ------------------------------------------------------------ temporary files
\* C11: a stop task that ends after the point where it names its temporary
\* file (writing raised, transcription returned nothing or failed, or the text
\* was sent) leaves no file at its path, a task whose directory or file could
\* not be written leaves no new file, and when no task is between writing and
\* ending AUDIO_DIR holds no recording.
TempFilesRemoved ==
    /\ [][\A t \in Stops :
            /\ (stoppc[t] \in {"transcribe", "send"} /\ stoppc'[t] = "done")
                  => temppath[t] \notin tempfiles'
            /\ (stoppc[t] = "write" /\ stoppc'[t] = "done")
                  => tempfiles' \subseteq tempfiles]_vars
    /\ []((\A t \in Stops : stoppc[t] \notin {"transcribe", "send"}) => tempfiles = {})

\* The only stop task wrote its file, transcription gave no text, the task has
\* ended and the file is gone.
TempFilesWitness ==
    /\ stoppc[1] = "done" /\ stoppc[2] = "none"
    /\ transcribed[1] = 1 /\ sent[1] = 0 /\ mishap[1]
    /\ tempfiles = {}


\* ------------------------------------------------------------ dispatcher thread
\* C12: a key handler never itself waits for a slow action: no call of
\* on_press returns with the response of an upload in hand (the request is
\* always made by a background task, so that the next event can be handled
\* while it is in flight).
HandlerHandsOff ==
    ~(last.ev = "press" /\ last.key = "up" /\ last.did \in {"200", "500", "raise"})


\* ------------------------------------------------------------ stop and kill claims
\* A step in which the `stop` command p ends.
StopEnds(p) == kind[p] = "stop" /\ pc[p] \in {"kill", "poll"} /\ pc'[p] = "dead"

\* C13: when `stop` exits 0, the process the PID file named is gone and
\* neither file remains; when `stop` finds no live instance recorded (no PID
\* file, a malformed one, or one naming no live process) it returns 1 and
\* neither file remains.
StopExitCode ==
    [][\A p \in Procs : StopEnds(p) =>
        /\ exitcode'[p] = "0" =>
                /\ target[p] \in Procs /\ pc'[target[p]] = "dead"
                /\ ~pidfile'.exists /\ ~metafile'.exists
        /\ (pc[p] = "kill" /\ ~PidFileLive) =>
                /\ exitcode'[p] = "1" /\ cause'[p] = "return"
                /\ ~pidfile'.exists /\ ~metafile'.exists]_vars

\* C20: kill_existing_process never ends with an unhandled error, whatever
\* the PID file holds: no `start` or `stop` command is ended by an exception.
KillAlwaysDecides ==
    \A p \in Procs :
        kind[p] \in {"start_fg", "start_bg", "stop"} => cause[p] # "exception"


\* ------------------------------------------------------------ recording claims
\* The record_audio threads whose input stream is open.
Streaming == {s \in Sessions : producer[s] = "streaming"}

\* C14: there is never more than one record_audio thread alive with its
\* stream open and appending to audio_data.
OneProducer == Cardinality(Streaming) <= 1


\* C15: when a stop task is about to read audio_data (line 441), the
\* record_audio thread of the session it stops has ended and no other
\* record_audio thread has its stream open, so nothing appends to the buffer
\* or resets it while it is read.
ReadAfterJoin ==
    \A t \in Stops :
        stoppc[t] = "read" => producer[stopfor[t]] = "ended" /\ Streaming = {}


\* C16: under fair scheduling of the threads, the stop task started by a
\* release of ESC during a session leads to is_recording being false, and once
\* ESC has been released during session s the record_audio thread of s ends,
\* whatever key events follow.
ReleaseStopsRecording ==
    /\ \A t \in Stops : (stoppc[t] = "check") ~> ~is_recording
    /\ \A s \in Sessions : (released[s] # "no") ~> (producer[s] = "ended")


\* C17: on_release for a key that is not in current_keys changes neither
\* KeyState nor the GestureClock nor the screenshot list nor the recording
\* state, and starts no stop task.
UnknownReleaseNoOp ==
    [][(KeyStep /\ last'.ev = "release" /\ last'.key \notin current_keys)
        => UNCHANGED <<current_keys, last_esc_time, screenshot_list, is_recording,
                       audio_thread, audio_data, producer, nsessions, stoppc,
                       stopfor>>]_vars


\* C18: whatever the outcome of the action a key press invokes, on_press
\* returns normally and the agent goes on listening for the next key event.
DispatcherSurvives == last.ev = "press" => (last.did \notin Raised /\ ListenerUp)


\* C19: once an agent has ended because its listener ended with an uncaught
\* exception, the PID file and the meta file it wrote are absent, in
\* foreground mode as in daemon mode.
LockReleasedOnFailure ==
    \A p \in Procs :
        (kind[p] \in {"start_fg", "daemon"} /\ pc[p] = "dead" /\ cause[p] = "exception")
            => /\ pidfile # PidFileOf(p)
               /\ ~(metafile.exists /\ metafile.owner = p)


\* ------------------------------------------------------------ escalation
\* Process p leaves the poll loop of kill_existing_process in this step.
LeavesPoll(p) == pc[p] = "poll" /\ pc'[p] # "poll"

\* Process p sends SIGKILL to its target in this step.
SendsKill(p) ==
    /\ LeavesPoll(p)
    /\ target[p] \in Procs
    /\ cause[target[p]] # "SIGKILL" /\ cause'[target[p]] = "SIGKILL"

\* C21: when a live instance is replaced, SIGTERM is sent first and the lock
\* record is left alone while it is sent and while the polls go on; the poll
\* loop goes on only while the polls find the process alive; SIGKILL is sent
\* only at the 30th poll when it, like the 29 before, finds the process alive,
\* and never when a poll finds it dead; the PID file and the meta file are
\* deleted when the loop is left.
EscalationOrder ==
    [][\A p \in Procs :
        /\ (pc[p] = "kill" /\ pc'[p] = "poll")
              => (target'[p] \in sigterm' /\ pidfile' = pidfile /\ metafile' = metafile)
        /\ (pc[p] = "poll" /\ pc'[p] = "poll" /\ polls'[p] # polls[p])
              => /\ Alive(target[p])
                 /\ polls'[p] = polls[p] + 1 /\ polls'[p] < 30
                 /\ pidfile' = pidfile /\ metafile' = metafile
        /\ SendsKill(p) => (polls[p] + 1 = 30 /\ Alive(target[p]))
        /\ (LeavesPoll(p) /\ ~Alive(target[p]))
              => (cause'[target[p]] = cause[target[p]] /\ pc'[target[p]] = "dead")
        /\ LeavesPoll(p) => (~pidfile'.exists /\ ~metafile'.exists)]_vars

\* A process was sent SIGKILL by a replacing command, and the record is gone.
EscalationWitness ==
    \E v \in Procs : cause[v] = "SIGKILL" /\ pc[v] = "dead" /\ ~pidfile.exists


\* ------------------------------------------------------------ the lock of a live daemon
\* The daemons that have written their PID file and have not begun to shut down.
DaemonRunning ==
    {p \in Procs : kind[p] = "daemon" /\ pc[p] \in {"alarm", "sig", "meta", "run"}}

\* C22: while a daemon has written its PID file and has not begun to shut
\* down, the PID file exists and holds that daemon's pid: no other process
\* deletes or overwrites it.
LiveLockKept == \A p \in DaemonRunning : pidfile = PidFileOf(p)


\* ------------------------------------------------------------ pending artifacts
\* C23: the element at (0-based) index i of screenshot_list is the path
\* screenshot_i, after any captures and flushes, failed or not: no path is
\* pending twice, and the path of the next capture, screenshot_<len>, is not
\* pending.
PendingPathsDistinct ==
    /\ \A k \in 1..Len(screenshot_list) : screenshot_list[k] = k - 1
    /\ \A k \in 1..Len(screenshot_list) : screenshot_list[k] # Len(screenshot_list)

\* A capture has just queued a second path after an upload was attempted.
PendingPathsWitness ==
    /\ last.ev = "press" /\ last.did = "captured"
    /\ Len(screenshot_list) = 2
    /\ flushes >= 1

====
